---- MODULE Spec2Model ----
(***************************************************************************)
(* Model of the music-library song service: the PostgreSQL table "songs",  *)
(* the Redis cache in front of single-song lookups, and the service        *)
(* operations AddSong, GetSong, UpdateSong and DeleteSong.                 *)
(*                                                                         *)
(* Spec      every service call is one atomic step (sequential callers).   *)
(* SpecConc  calls run on concurrent workers and interleave at every       *)
(*           cache / store round trip.                                     *)
(* SpecPage  one paginated request against a catalog.                      *)
(* SpecTTL   sequential calls on a clock that runs the entries' expiry.    *)
(***************************************************************************)
EXTENDS Integers, Sequences, FiniteSets, TLC

VARIABLES songs,    \* the rows of table songs
          cache,    \* Redis: cache key -> serialized value (Absent if none)
          last,     \* the most recent completed service call (Spec)
          workers,  \* the call every worker is in or has completed (SpecConc)
          mutated,  \* ids an UpdateSong or DeleteSong was started on (SpecConc)
          ttl       \* Redis: cache key -> minutes the key has left (SpecTTL)

vars == <<songs, cache, last, workers, mutated, ttl>>

----------------------------------------------------------------------------
(* Bounds and value domains                                                *)

\* number of distinct clock readings generateID can observe
MaxClock == 1

\* number of concurrent request workers
NumWorkers == 2

\* fmt.Sprintf("song-%d", n) for the clock readings of the model
IdOfNano == <<"song-1", "song-2", "song-3", "song-4", "song-5", "song-6">>

\* ids of the rows that can exist in the table
Ids == {IdOfNano[1], IdOfNano[2]}

\* clock readings at call time: later than the ones in the stored ids
Nanos == 3..(2 + MaxClock)

GroupNames == {"Muse"}
SongNames == {"Uprising", "Starlight"}
Texts == {"la"}
Links == {"http://l"}

\* a calendar date as the client writes it, and as database/sql renders a
\* DATE column scanned into a string (time.Time formatted as RFC3339Nano)
DateTable ==
  << <<"2006-07-16", "2006-07-16T00:00:00Z">>,
     <<"2009-09-14", "2009-09-14T00:00:00Z">>,
     <<"2012-10-01", "2012-10-01T00:00:00Z">> >>

IsoDates == {DateTable[i][1] : i \in DOMAIN DateTable}
RfcDates == {DateTable[i][2] : i \in DOMAIN DateTable}

BadDate == "<bad date>"

\* the date the requests of Spec and SpecConc carry
CallDates == {DateTable[1][1]}

\* PostgreSQL date input: both spellings denote the date, anything else is
\* rejected
ParseDate(s) ==
  IF s \in IsoDates THEN s
  ELSE IF s \in RfcDates
       THEN DateTable[CHOOSE i \in DOMAIN DateTable : DateTable[i][2] = s][1]
       ELSE BadDate

\* a DATE value scanned into a Go string
FormatDate(d) == DateTable[CHOOSE i \in DOMAIN DateTable : DateTable[i][1] = d][2]

----------------------------------------------------------------------------
(* models.Song                                                             *)

Song(id, g, s, d, t, l) ==
  [ID |-> id, GroupName |-> g, SongName |-> s, ReleaseDate |-> d,
   Text |-> t, Link |-> l]

\* the nil *models.Song
NilSong == Song("<nil>", "", "", "", "", "")

\* time.Now().UnixNano() rendered as an id
generateID(now) == IdOfNano[now]

\* (mutant) NewSong without the test of the names
NewSongUnchecked(groupName, songName, text, link, releaseDate, now) ==
  [err |-> "nil",
   song |-> Song(generateID(now), groupName, songName, releaseDate, text, link)]

\* NewSong: rejects empty names, otherwise a Song with a freshly generated ID
NewSong(groupName, songName, text, link, releaseDate, now) ==
  IF groupName = "" \/ songName = ""
  THEN [err |-> "InvalidInput", song |-> NilSong]
  ELSE [err |-> "nil",
        song |-> Song(generateID(now), groupName, songName, releaseDate, text, link)]

\* (mutant) json.Marshal with the tags of GroupName and SongName exchanged
MarshalTagsSwapped(song) ==
  <<song.ID, song.SongName, song.GroupName, song.ReleaseDate, song.Text, song.Link>>

\* json.Marshal of a Song: the fields in declaration order
Marshal(song) ==
  <<song.ID, song.GroupName, song.SongName, song.ReleaseDate, song.Text, song.Link>>

\* a value json.Unmarshal accepts as a Song
CanUnmarshal(data) == Len(data) = 6

Unmarshal(data) ==
  [ID |-> data[1], GroupName |-> data[2], SongName |-> data[3],
   ReleaseDate |-> data[4], Text |-> data[5], Link |-> data[6]]

----------------------------------------------------------------------------
(* The table songs (migrations/001_create_song_table.up.sql)               *)

Null == "<NULL>"

Row(id, g, s, d, t, l) ==
  [id |-> id, group_name |-> g, song_name |-> s, release_date |-> d,
   text |-> t, link |-> l]

\* id is the primary key
PrimaryKeyOK(tbl) == \A r1, r2 \in tbl : r1.id = r2.id => r1 = r2

\* CONSTRAINT unique_song UNIQUE (group_name, song_name)
UniqueSongOK(tbl) ==
  \A r1, r2 \in tbl :
    (r1.group_name = r2.group_name /\ r1.song_name = r2.song_name) => r1 = r2

\* every column is NOT NULL (PRIMARY KEY implies it for id)
NotNullOK(tbl) == \A r \in tbl : r.id # Null

\* INSERT of one row: input conversion, then NOT NULL, then the unique indexes
InsertRow(tbl, row) ==
  IF row.release_date = BadDate THEN [err |-> "InvalidDate", tbl |-> tbl]
  ELSE IF ~NotNullOK({row}) THEN [err |-> "NotNullViolation", tbl |-> tbl]
  ELSE IF ~PrimaryKeyOK(tbl \cup {row}) \/ ~UniqueSongOK(tbl \cup {row})
       THEN [err |-> "Conflict", tbl |-> tbl]
       ELSE [err |-> "nil", tbl |-> tbl \cup {row}]

\* scanning a row into a models.Song
ScanSong(r) ==
  Song(r.id, r.group_name, r.song_name, FormatDate(r.release_date), r.text, r.link)

\* GetSongRepository: SELECT ... WHERE id = $1, scanned into a Song
GetSongRepository(tbl, id, dbOk) ==
  IF ~dbOk THEN [err |-> "StoreUnavailable", song |-> NilSong]
  ELSE IF \A r \in tbl : r.id # id
       THEN [err |-> "NotFound", song |-> NilSong]
       ELSE [err |-> "nil", song |-> ScanSong(CHOOSE r \in tbl : r.id = id)]

\* AddSongRepository: INSERT INTO songs (group_name, song_name, release_date,
\* text, link): the id column is not in the column list and has no default
AddSongRepository(tbl, song, dbOk) ==
  IF ~dbOk THEN [err |-> "StoreUnavailable", tbl |-> tbl]
  ELSE InsertRow(tbl, Row(Null, song.GroupName, song.SongName,
                          ParseDate(song.ReleaseDate), song.Text, song.Link))

\* (mutant) checkRowsAffected accepting zero affected rows
checkRowsAffectedAny(rowsAffected) == "nil"

\* checkRowsAffected: zero affected rows is an error
checkRowsAffected(rowsAffected) ==
  IF rowsAffected = 0 THEN "NotFound" ELSE "nil"

\* UpdateSongRepository: UPDATE songs SET ... WHERE id = $6
UpdateSongRepository(tbl, id, song, dbOk) ==
  LET hit == {r \in tbl : r.id = id}
      new == {Row(r.id, song.GroupName, song.SongName,
                  ParseDate(song.ReleaseDate), song.Text, song.Link) : r \in hit}
      out == (tbl \ hit) \cup new
  IN IF ~dbOk THEN [err |-> "StoreUnavailable", tbl |-> tbl]
     ELSE IF ParseDate(song.ReleaseDate) = BadDate
          THEN [err |-> "InvalidDate", tbl |-> tbl]
     ELSE IF ~UniqueSongOK(out) THEN [err |-> "Conflict", tbl |-> tbl]
     ELSE IF checkRowsAffected(Cardinality(hit)) # "nil"
          THEN [err |-> checkRowsAffected(Cardinality(hit)), tbl |-> tbl]
          ELSE [err |-> "nil", tbl |-> out]

\* DeleteSongRepository: DELETE FROM songs WHERE id = $1
DeleteSongRepository(tbl, id, dbOk) ==
  LET hit == {r \in tbl : r.id = id}
  IN IF ~dbOk THEN [err |-> "StoreUnavailable", tbl |-> tbl]
     ELSE IF checkRowsAffected(Cardinality(hit)) # "nil"
          THEN [err |-> checkRowsAffected(Cardinality(hit)), tbl |-> tbl]
          ELSE [err |-> "nil", tbl |-> tbl \ hit]

----------------------------------------------------------------------------
(* The Redis cache                                                         *)

\* fmt.Sprintf("song:%s", id)
CacheKey(id) == <<"song:", id>>

Keys == {CacheKey(id) : id \in Ids}

\* no value under the key (redis.Nil)
Absent == <<>>

\* a value under the key that is not the JSON of a Song
Garbage == <<"not json">>

\* redis.Get: the value, or an error when the key is absent or Redis fails
RedisGet(c, key, ok) ==
  IF ok /\ c[key] # Absent THEN [err |-> "nil", val |-> c[key]]
  ELSE [err |-> IF ok THEN "redis.Nil" ELSE "CacheUnavailable", val |-> Absent]

\* redis.Set with the 10 minute expiry: no effect when Redis fails
RedisSet(c, key, val, ok) == IF ok THEN [c EXCEPT ![key] = val] ELSE c

\* (mutant) redis.Del addressed to another key: the entry stays
RedisDelOtherKey(c, key, ok) == c

\* redis.Del: no effect when Redis fails
RedisDel(c, key, ok) == IF ok THEN [c EXCEPT ![key] = Absent] ELSE c

\* the expiration of GetSong's and UpdateSong's redis.Set: 10*time.Minute
CacheMinutes == 10

\* a key without a time to live; a key with n minutes left has <<n>>
NoExpiry == <<>>

\* (mutant) redis.Set called with expiration 0: the key is kept for ever
RedisSetNoExpiry(t, key, expiration, ok) ==
  IF ok THEN [t EXCEPT ![key] = NoExpiry] ELSE t

\* redis.Set, the time to live it leaves on the key: the expiration, none
\* for expiration 0, the former one when Redis fails
RedisSetTTL(t, key, expiration, ok) ==
  IF ok THEN [t EXCEPT ![key] = IF expiration = 0 THEN NoExpiry ELSE <<expiration>>]
  ELSE t

\* redis.Del, the time to live it leaves: none, the key is gone
RedisDelTTL(t, key, ok) == IF ok THEN [t EXCEPT ![key] = NoExpiry] ELSE t

----------------------------------------------------------------------------
(* SongService: a call is a record that advances by one cache, store or    *)
(* enrichment round trip per step; pc names the round trip that is next    *)

\* the frame of a call: its arguments, its position and its locals
Call(op, id, arg, pc) ==
  [op |-> op, id |-> id, arg |-> arg, pc |-> pc,
   err |-> "nil",        \* the error the call returns
   song |-> NilSong,     \* the song the call returns (GetSong)
   full |-> NilSong,     \* fullSong (AddSong, UpdateSong)
   get |-> "-",          \* outcome of redis.Get: hit, miss, garbage, fail
   del |-> "-",          \* outcome of redis.Del: ok, fail
   set |-> "-",          \* outcome of redis.Set: ok, fail
   api |-> "-",          \* outcome of the enrichment request (AddSong)
   db |-> "-"]           \* outcome of the repository call: ok, fail

Idle == Call("idle", "", NilSong, "done")

Done(w, err) == [w EXCEPT !.pc = "done", !.err = err]

\* GetSong, first round trip: redis.Get and json.Unmarshal; a hit returns
GetSongCache(w, tbl, c, ok) ==
  LET got == RedisGet(c, CacheKey(w.id), ok)
  IN IF got.err = "nil" /\ CanUnmarshal(got.val)
     THEN [w |-> [Done(w, "nil") EXCEPT !.get = "hit", !.song = Unmarshal(got.val)],
           tbl |-> tbl, c |-> c]
     ELSE [w |-> [w EXCEPT !.pc = "db",
                           !.get = IF ~ok THEN "fail"
                                   ELSE IF got.err = "nil" THEN "garbage" ELSE "miss"],
           tbl |-> tbl, c |-> c]

\* (mutant) GetSong caching whatever the repository returned, errors too
GetSongStoreCachesErrors(w, tbl, c, ok) ==
  LET r == GetSongRepository(tbl, w.id, ok)
  IN [w |-> [Done(w, r.err) EXCEPT !.db = IF ok THEN "ok" ELSE "fail", !.song = r.song],
      tbl |-> tbl,
      c |-> RedisSet(c, CacheKey(w.id), Marshal(r.song), TRUE)]

\* GetSong, second round trip: GetSongRepository; an error returns
GetSongStore(w, tbl, c, ok) ==
  LET r == GetSongRepository(tbl, w.id, ok)
  IN IF r.err # "nil"
     THEN [w |-> [Done(w, r.err) EXCEPT !.db = IF ok THEN "ok" ELSE "fail"],
           tbl |-> tbl, c |-> c]
     ELSE [w |-> [w EXCEPT !.pc = "set", !.db = "ok", !.song = r.song],
           tbl |-> tbl, c |-> c]

\* (mutant) GetSong marshalling the wrong local into the cache
GetSongFillWrongLocal(w, tbl, c, ok) ==
  [w |-> [Done(w, "nil") EXCEPT !.set = IF ok THEN "ok" ELSE "fail"],
   tbl |-> tbl,
   c |-> RedisSet(c, CacheKey(w.id), Marshal(w.full), ok)]

\* (mutant) GetSong returning the error of redis.Set
GetSongFillPropagates(w, tbl, c, ok) ==
  [w |-> [Done(w, IF ok THEN "nil" ELSE "CacheUnavailable")
            EXCEPT !.set = IF ok THEN "ok" ELSE "fail"],
   tbl |-> tbl,
   c |-> RedisSet(c, CacheKey(w.id), Marshal(w.song), ok)]

\* GetSong, third round trip: redis.Set of the marshalled song, error logged
GetSongFill(w, tbl, c, ok) ==
  [w |-> [Done(w, "nil") EXCEPT !.set = IF ok THEN "ok" ELSE "fail"],
   tbl |-> tbl,
   c |-> RedisSet(c, CacheKey(w.id), Marshal(w.song), ok)]

\* UpdateSong, first round trip: redis.Del, then NewSong; invalid input returns
UpdateSongInvalidate(w, tbl, c, ok, now) ==
  LET made == NewSong(w.arg.GroupName, w.arg.SongName, w.arg.Text, w.arg.Link,
                      w.arg.ReleaseDate, now)
      w1 == [w EXCEPT !.del = IF ok THEN "ok" ELSE "fail"]
  IN [w |-> IF made.err # "nil" THEN Done(w1, made.err)
            ELSE [w1 EXCEPT !.pc = "db", !.full = made.song],
      tbl |-> tbl,
      c |-> RedisDel(c, CacheKey(w.id), ok)]

\* (mutant) UpdateSong dropping the error of UpdateSongRepository
UpdateSongStoreDropsErr(w, tbl, c, ok) ==
  LET r == UpdateSongRepository(tbl, w.id, w.full, ok)
  IN [w |-> [w EXCEPT !.pc = "set", !.db = IF ok THEN "ok" ELSE "fail"],
      tbl |-> r.tbl, c |-> c]

\* UpdateSong, second round trip: UpdateSongRepository; an error returns
UpdateSongStore(w, tbl, c, ok) ==
  LET r == UpdateSongRepository(tbl, w.id, w.full, ok)
      w1 == [w EXCEPT !.db = IF ok THEN "ok" ELSE "fail"]
  IN [w |-> IF r.err # "nil" THEN Done(w1, r.err) ELSE [w1 EXCEPT !.pc = "set"],
      tbl |-> r.tbl, c |-> c]

\* (mutant) UpdateSong returning the error of redis.Set
UpdateSongFillPropagates(w, tbl, c, ok) ==
  [w |-> [Done(w, IF ok THEN "nil" ELSE "CacheUnavailable")
            EXCEPT !.set = IF ok THEN "ok" ELSE "fail"],
   tbl |-> tbl,
   c |-> RedisSet(c, CacheKey(w.id), Marshal(w.full), ok)]

\* (mutant) UpdateSong caching the request body instead of fullSong
UpdateSongFillRequest(w, tbl, c, ok) ==
  [w |-> [Done(w, "nil") EXCEPT !.set = IF ok THEN "ok" ELSE "fail"],
   tbl |-> tbl,
   c |-> RedisSet(c, CacheKey(w.id), Marshal(w.arg), ok)]

\* UpdateSong, third round trip: redis.Set of the marshalled fullSong
UpdateSongFill(w, tbl, c, ok) ==
  [w |-> [Done(w, "nil") EXCEPT !.set = IF ok THEN "ok" ELSE "fail"],
   tbl |-> tbl,
   c |-> RedisSet(c, CacheKey(w.id), Marshal(w.full), ok)]

\* (mutant) DeleteSong dropping the error of DeleteSongRepository
DeleteSongStoreDropsErr(w, tbl, c, ok) ==
  LET r == DeleteSongRepository(tbl, w.id, ok)
  IN [w |-> [w EXCEPT !.pc = "del", !.db = IF ok THEN "ok" ELSE "fail"],
      tbl |-> r.tbl, c |-> c]

\* DeleteSong, first round trip: DeleteSongRepository; an error returns
DeleteSongStore(w, tbl, c, ok) ==
  LET r == DeleteSongRepository(tbl, w.id, ok)
      w1 == [w EXCEPT !.db = IF ok THEN "ok" ELSE "fail"]
  IN [w |-> IF r.err # "nil" THEN Done(w1, r.err) ELSE [w1 EXCEPT !.pc = "del"],
      tbl |-> r.tbl, c |-> c]

\* (mutant) DeleteSong without the invalidation
DeleteSongNoInvalidate(w, tbl, c, ok) ==
  [w |-> [Done(w, "nil") EXCEPT !.del = IF ok THEN "ok" ELSE "fail"],
   tbl |-> tbl, c |-> c]

\* DeleteSong, second round trip: redis.Del
DeleteSongInvalidate(w, tbl, c, ok) ==
  [w |-> [Done(w, "nil") EXCEPT !.del = IF ok THEN "ok" ELSE "fail"],
   tbl |-> tbl,
   c |-> RedisDel(c, CacheKey(w.id), ok)]

\* (mutant) AddSong reading the body whatever the status of the response
AddSongFetchAnyStatus(w, tbl, c, ok, now) ==
  LET made == NewSong(w.arg.GroupName, w.arg.SongName, w.arg.Text, w.arg.Link,
                      w.arg.ReleaseDate, now)
      w1 == [w EXCEPT !.api = IF ok THEN w.arg.Response ELSE "RequestError"]
  IN [w |-> IF w1.api \notin {"OK", "StatusNotOK"}
            THEN Done(w1, "EnrichmentUnavailable")
            ELSE IF made.err # "nil" THEN Done(w1, made.err)
            ELSE [w1 EXCEPT !.pc = "db", !.full = made.song],
      tbl |-> tbl, c |-> c]

\* AddSong, first round trip: the enrichment request (w.arg carries the group,
\* the song and what the API answers: a request error when the round trip
\* fails, else a status that is not 200, a body that cannot be read, a body
\* that is no JSON, or the details), then NewSong; a failure returns
AddSongFetch(w, tbl, c, ok, now) ==
  LET made == NewSong(w.arg.GroupName, w.arg.SongName, w.arg.Text, w.arg.Link,
                      w.arg.ReleaseDate, now)
      w1 == [w EXCEPT !.api = IF ok THEN w.arg.Response ELSE "RequestError"]
  IN [w |-> IF w1.api # "OK" THEN Done(w1, "EnrichmentUnavailable")
            ELSE IF made.err # "nil" THEN Done(w1, made.err)
            ELSE [w1 EXCEPT !.pc = "db", !.full = made.song],
      tbl |-> tbl, c |-> c]

\* AddSong, second round trip: AddSongRepository
AddSongStore(w, tbl, c, ok) ==
  LET r == AddSongRepository(tbl, w.full, ok)
  IN [w |-> [Done(w, r.err) EXCEPT !.db = IF ok THEN "ok" ELSE "fail"],
      tbl |-> r.tbl, c |-> c]

\* one round trip of the call w against table tbl and cache c; ok says
\* whether the collaborator answered, now is the clock reading
Step(w, tbl, c, ok, now) ==
  CASE w.op = "GetSong" /\ w.pc = "get" -> GetSongCache(w, tbl, c, ok)
    [] w.op = "GetSong" /\ w.pc = "db" -> GetSongStore(w, tbl, c, ok)
    [] w.op = "GetSong" /\ w.pc = "set" -> GetSongFill(w, tbl, c, ok)
    [] w.op = "UpdateSong" /\ w.pc = "del" -> UpdateSongInvalidate(w, tbl, c, ok, now)
    [] w.op = "UpdateSong" /\ w.pc = "db" -> UpdateSongStore(w, tbl, c, ok)
    [] w.op = "UpdateSong" /\ w.pc = "set" -> UpdateSongFill(w, tbl, c, ok)
    [] w.op = "DeleteSong" /\ w.pc = "db" -> DeleteSongStore(w, tbl, c, ok)
    [] w.op = "DeleteSong" /\ w.pc = "del" -> DeleteSongInvalidate(w, tbl, c, ok)
    [] w.op = "AddSong" /\ w.pc = "api" -> AddSongFetch(w, tbl, c, ok, now)
    [] w.op = "AddSong" /\ w.pc = "db" -> AddSongStore(w, tbl, c, ok)
    [] OTHER -> [w |-> w, tbl |-> tbl, c |-> c]

\* the calls a client can make
GetSong(id) == Call("GetSong", id, NilSong, "get")
UpdateSong(id, updateSong) == Call("UpdateSong", id, updateSong, "del")
DeleteSong(id) == Call("DeleteSong", id, NilSong, "db")
AddSong(group, song, detail) ==
  Call("AddSong", "",
       [ID |-> "", GroupName |-> group, SongName |-> song,
        ReleaseDate |-> detail.ReleaseDate, Text |-> detail.Text,
        Link |-> detail.Link, Response |-> detail.Response], "api")

\* the outcome a call's next round trip takes from oks, a record with one
\* flag per collaborator call: get, del, set (Redis), db (store), api
OkFor(w, oks) ==
  CASE w.pc = "get" -> oks.get
    [] w.pc = "del" -> oks.del
    [] w.pc = "set" -> oks.set
    [] w.pc = "db" -> oks.db
    [] w.pc = "api" -> oks.api
    [] OTHER -> TRUE

\* the call w run from (tbl, c) to its return with the outcomes oks
Outcome(w, tbl, c, oks, now) ==
  LET s1 == Step(w, tbl, c, OkFor(w, oks), now)
      s2 == Step(s1.w, s1.tbl, s1.c, OkFor(s1.w, oks), now)
  IN Step(s2.w, s2.tbl, s2.c, OkFor(s2.w, oks), now)

AllOk == [get |-> TRUE, del |-> TRUE, set |-> TRUE, db |-> TRUE, api |-> TRUE]

----------------------------------------------------------------------------
(* Inputs                                                                  *)

\* request bodies of PUT /song/{id}: complete ones, and ones with the group
\* name, the song name or the release date missing
ValidInputs ==
  {Song("", g, s, d, t, l) :
     g \in GroupNames, s \in SongNames, d \in CallDates, t \in Texts, l \in Links}

UpdateInputs ==
  ValidInputs
  \cup {[in EXCEPT !.GroupName = ""] : in \in {CHOOSE v \in ValidInputs : TRUE}}
  \cup {[in EXCEPT !.SongName = ""] : in \in {CHOOSE v \in ValidInputs : TRUE}}
  \cup {[in EXCEPT !.ReleaseDate = ""] : in \in {CHOOSE v \in ValidInputs : TRUE}}

\* what the enrichment API answers: the details of the song, or a response
\* AddSong cannot use
Details ==
  {[ReleaseDate |-> d, Text |-> t, Link |-> l, Response |-> "OK"] :
     d \in CallDates \cup {""}, t \in Texts, l \in Links}
  \cup {[ReleaseDate |-> "", Text |-> "", Link |-> "", Response |-> r] :
          r \in {"StatusNotOK", "BodyUnreadable", "BodyNotJSON"}}

\* the (group, song) arguments of AddSong
AddInputs ==
  {<<g, s>> : g \in GroupNames, s \in SongNames}
  \cup {<<"", s>> : s \in {CHOOSE v \in SongNames : TRUE}}

Workers == 1..NumWorkers

\* the tables the schema admits over the model's rows
Tables ==
  {tbl \in SUBSET {Row(id, g, s, d, t, l) :
                     id \in Ids, g \in GroupNames, s \in SongNames,
                     d \in CallDates, t \in Texts, l \in Links} :
     PrimaryKeyOK(tbl) /\ UniqueSongOK(tbl)}

----------------------------------------------------------------------------
(* Initial state: the service starts on an existing database and an        *)
(* existing Redis; no entry of the cache is a song yet                      *)

Init ==
  /\ songs \in Tables
  /\ cache \in [Keys -> {Absent, Garbage}]
  /\ last = Idle
  /\ workers = [i \in Workers |-> Idle]
  /\ mutated = {}
  /\ ttl = [k \in Keys |-> NoExpiry]

\* the entry under a key reaches its 10 minute expiry
Expire ==
  /\ \E k \in Keys : cache[k] # Absent /\ cache' = [cache EXCEPT ![k] = Absent]
  /\ UNCHANGED <<songs, last, workers, mutated, ttl>>

----------------------------------------------------------------------------
(* Spec: one caller, every call runs to completion                         *)

Finish(r) ==
  /\ songs' = r.tbl
  /\ cache' = r.c
  /\ last' = r.w
  /\ UNCHANGED <<workers, mutated, ttl>>

\* the call w from its first round trip to its return, every round trip
\* answering or failing
Complete(w, now) ==
  \E ok1 \in BOOLEAN :
    LET s1 == Step(w, songs, cache, ok1, now)
    IN IF s1.w.pc = "done" THEN Finish(s1)
       ELSE \E ok2 \in BOOLEAN :
              LET s2 == Step(s1.w, s1.tbl, s1.c, ok2, now)
              IN IF s2.w.pc = "done" THEN Finish(s2)
                 ELSE \E ok3 \in BOOLEAN :
                        Finish(Step(s2.w, s2.tbl, s2.c, ok3, now))

DoGetSong == \E id \in Ids : Complete(GetSong(id), 3)

DoUpdateSong ==
  \E id \in Ids, in \in UpdateInputs, now \in Nanos :
    Complete(UpdateSong(id, in), now)

DoDeleteSong == \E id \in Ids : Complete(DeleteSong(id), 3)

DoAddSong ==
  \E gs \in AddInputs, d \in Details, now \in Nanos :
    Complete(AddSong(gs[1], gs[2], d), now)

Next == DoGetSong \/ DoUpdateSong \/ DoDeleteSong \/ DoAddSong \/ Expire

Spec == Init /\ [][Next]_vars

----------------------------------------------------------------------------
(* SpecConc: every request runs on its own worker; the workers interleave  *)
(* at every round trip                                                     *)

\* the id the concurrent requests contend for
ConcIds == {IdOfNano[1]}

\* worker i takes the call w and makes its first round trip
Begin(i, w) ==
  \E ok \in BOOLEAN, now \in Nanos :
    /\ workers[i].pc = "done"
    /\ LET r == Step(w, songs, cache, ok, now)
       IN /\ songs' = r.tbl
          /\ cache' = r.c
          /\ workers' = [workers EXCEPT ![i] = r.w]
    /\ mutated' = IF w.op \in {"UpdateSong", "DeleteSong"}
                  THEN mutated \cup {w.id} ELSE mutated
    /\ UNCHANGED <<last, ttl>>

BeginGetSong == \E i \in Workers, id \in ConcIds : Begin(i, GetSong(id))

BeginUpdateSong ==
  \E i \in Workers, id \in ConcIds, in \in ValidInputs : Begin(i, UpdateSong(id, in))

BeginDeleteSong == \E i \in Workers, id \in ConcIds : Begin(i, DeleteSong(id))

Advance ==
  \E i \in Workers, ok \in BOOLEAN, now \in Nanos :
    /\ workers[i].pc # "done"
    /\ LET r == Step(workers[i], songs, cache, ok, now)
       IN /\ songs' = r.tbl
          /\ cache' = r.c
          /\ workers' = [workers EXCEPT ![i] = r.w]
    /\ UNCHANGED <<last, mutated, ttl>>

NextConc == BeginGetSong \/ BeginUpdateSong \/ BeginDeleteSong \/ Advance \/ Expire

SpecConc == Init /\ [][NextConc]_vars

----------------------------------------------------------------------------
(* SpecUp: SpecConc with Redis answering every call; the store may fail    *)

\* the answers the next round trip of w can get
Answers(w) == IF w.pc \in {"get", "del", "set"} THEN {TRUE} ELSE BOOLEAN

BeginUp(i, w) ==
  \E ok \in Answers(w), now \in Nanos :
    /\ workers[i].pc = "done"
    /\ LET r == Step(w, songs, cache, ok, now)
       IN /\ songs' = r.tbl
          /\ cache' = r.c
          /\ workers' = [workers EXCEPT ![i] = r.w]
    /\ mutated' = IF w.op \in {"UpdateSong", "DeleteSong"}
                  THEN mutated \cup {w.id} ELSE mutated
    /\ UNCHANGED <<last, ttl>>

BeginUpGetSong == \E i \in Workers, id \in ConcIds : BeginUp(i, GetSong(id))

BeginUpUpdateSong ==
  \E i \in Workers, id \in ConcIds, in \in ValidInputs : BeginUp(i, UpdateSong(id, in))

BeginUpDeleteSong == \E i \in Workers, id \in ConcIds : BeginUp(i, DeleteSong(id))

AdvanceUp ==
  \E i \in Workers, now \in Nanos :
    /\ workers[i].pc # "done"
    /\ \E ok \in Answers(workers[i]) :
         LET r == Step(workers[i], songs, cache, ok, now)
         IN /\ songs' = r.tbl
            /\ cache' = r.c
            /\ workers' = [workers EXCEPT ![i] = r.w]
    /\ UNCHANGED <<last, mutated, ttl>>

NextUp ==
  BeginUpGetSong \/ BeginUpUpdateSong \/ BeginUpDeleteSong \/ AdvanceUp \/ Expire

SpecUp == Init /\ [][NextUp]_vars

----------------------------------------------------------------------------
(* Go's int (64 bits, two's complement) as IntBytes bytes, lowest first    *)

IntBytes == 8

\* the int of a small number (floor division gives the two's complement)
RECURSIVE Bytes(_, _)
Bytes(n, k) == IF k = 0 THEN <<>> ELSE <<n % 256>> \o Bytes(n \div 256, k - 1)

GoInt(n) == Bytes(n, IntBytes)

\* 2^k for k < 8 * IntBytes - 1
Pow2(k) == [i \in 1..IntBytes |-> IF i = (k \div 8) + 1 THEN 2 ^ (k % 8) ELSE 0]

MaxInt == [i \in 1..IntBytes |-> IF i = IntBytes THEN 127 ELSE 255]
MinInt == [i \in 1..IntBytes |-> IF i = IntBytes THEN 128 ELSE 0]

IsNegative(a) == a[IntBytes] >= 128

\* a + b, wrapping
RECURSIVE AddFrom(_, _, _, _)
AddFrom(a, b, k, carry) ==
  IF k > IntBytes THEN <<>>
  ELSE LET s == a[k] + b[k] + carry
       IN <<s % 256>> \o AddFrom(a, b, k + 1, s \div 256)

IntAdd(a, b) == AddFrom(a, b, 1, 0)

\* column k of the schoolbook product: the sum of a[i] * b[k + 1 - i]
RECURSIVE Column(_, _, _, _)
Column(a, b, k, i) ==
  IF i > k THEN 0 ELSE a[i] * b[k + 1 - i] + Column(a, b, k, i + 1)

RECURSIVE MulFrom(_, _, _, _)
MulFrom(a, b, k, carry) ==
  IF k > IntBytes THEN <<>>
  ELSE LET s == Column(a, b, k, 1) + carry
       IN <<s % 256>> \o MulFrom(a, b, k + 1, s \div 256)

\* a * b, wrapping: the low IntBytes bytes of the product
IntMul(a, b) == MulFrom(a, b, 1, 0)

\* a < 1
LessThanOne(a) == IsNegative(a) \/ a = GoInt(0)

\* a non-negative int as a number, numbers above cap as cap
Capped(a, cap) ==
  IF \E i \in 4..Len(a) : a[i] # 0 THEN cap
  ELSE LET n == a[1] + 256 * a[2] + 65536 * a[3]
       IN IF n > cap THEN cap ELSE n

----------------------------------------------------------------------------
(* strconv.Atoi on a string given as its characters                        *)

Digits == <<"0", "1", "2", "3", "4", "5", "6", "7", "8", "9">>

IsDigit(c) == \E i \in DOMAIN Digits : Digits[i] = c

DigitOf(c) == (CHOOSE i \in DOMAIN Digits : Digits[i] = c) - 1

\* a magnitude that does not fit IntBytes bytes
Over == <<>>

\* a * 10 + d on unsigned bytes, the carry out as one more element
RECURSIVE ScaleFrom(_, _, _)
ScaleFrom(a, k, carry) ==
  IF k > IntBytes THEN <<carry>>
  ELSE LET s == a[k] * 10 + carry
       IN <<s % 256>> \o ScaleFrom(a, k + 1, s \div 256)

\* the number a string of digits writes, appended to acc
RECURSIVE Magnitude(_, _)
Magnitude(ds, acc) ==
  IF acc = Over \/ ds = <<>> THEN acc
  ELSE LET r == ScaleFrom(acc, 1, DigitOf(Head(ds)))
       IN Magnitude(Tail(ds),
                    IF r[IntBytes + 1] # 0 THEN Over ELSE SubSeq(r, 1, IntBytes))

\* strconv.Atoi: 0 on a syntax error, the nearest int on a range error
Atoi(s) ==
  LET signed == s # <<>> /\ s[1] \in {"+", "-"}
      neg == s # <<>> /\ s[1] = "-"
      body == IF signed THEN Tail(s) ELSE s
  IN IF body = <<>> \/ \E i \in DOMAIN body : ~IsDigit(body[i])
     THEN [val |-> GoInt(0), err |-> "ErrSyntax"]
     ELSE LET m == Magnitude(body, GoInt(0))
          IN IF ~neg
             THEN IF m = Over \/ IsNegative(m)
                  THEN [val |-> MaxInt, err |-> "ErrRange"]
                  ELSE [val |-> m, err |-> "nil"]
             ELSE IF m = Over \/ (IsNegative(m) /\ m # MinInt)
                  THEN [val |-> MinInt, err |-> "ErrRange"]
                  ELSE [val |-> IntMul(m, GoInt(-1)), err |-> "nil"]

\* values of the query parameter page: absent, not a number, not positive,
\* small pages, pages whose offset does not fit an int, a number no int holds
PageQueries ==
  { <<>>, <<"a">>, <<"0">>, <<"-", "1">>, <<"1">>, <<"2">>, <<"3">>,
    <<"4", "2", "9", "4", "9", "6", "7", "2", "9", "7">>,
    <<"4", "6", "1", "1", "6", "8", "6", "0", "1", "8",
      "4", "2", "7", "3", "8", "7", "9", "0", "5">>,
    <<"9", "9", "9", "9", "9", "9", "9", "9", "9", "9",
      "9", "9", "9", "9", "9", "9", "9", "9", "9", "9">> }

\* values of the query parameter pageSize
SizeQueries ==
  { <<>>, <<"0">>, <<"-", "2">>, <<"1">>, <<"2">>,
    <<"4", "2", "9", "4", "9", "6", "7", "2", "9", "6">> }

----------------------------------------------------------------------------
(* PostgreSQL operators of the paginated queries; a string is the sequence *)
(* of its characters, a text the sequence of its words and newlines         *)

\* the letters lower() changes
LowerTable == << <<"M", "m">>, <<"U", "u">>, <<"P", "p">>, <<"A", "a">> >>

Lower(c) ==
  IF \E i \in DOMAIN LowerTable : LowerTable[i][1] = c
  THEN LowerTable[CHOOSE i \in DOMAIN LowerTable : LowerTable[i][1] = c][2]
  ELSE c

Fold(str) == [i \in DOMAIN str |-> Lower(str[i])]

\* str LIKE pat: % is any run of characters, _ any one character, backslash
\* takes the next character literally
RECURSIVE Like(_, _)
Like(pat, str) ==
  IF pat = <<>> THEN str = <<>>
  ELSE IF Head(pat) = "%"
       THEN Like(Tail(pat), str) \/ (str # <<>> /\ Like(pat, Tail(str)))
  ELSE IF str = <<>> THEN FALSE
  ELSE IF Head(pat) = "_" THEN Like(Tail(pat), Tail(str))
  ELSE IF Head(pat) = "\\" /\ Len(pat) > 1
       THEN pat[2] = Head(str) /\ Like(Tail(Tail(pat)), Tail(str))
  ELSE Head(pat) = Head(str) /\ Like(Tail(pat), Tail(str))

\* str ILIKE pat
ILike(pat, str) == Like(Fold(pat), Fold(str))

\* the text search configuration: stop words, and the lexeme (lower case,
\* stemmed) of the words that are not their own lexeme
StopWords == {"the", "The"}

StemTable == << <<"Love", "love">>, <<"loves", "love">>, <<"suns", "sun">> >>

Stem(word) ==
  IF \E i \in DOMAIN StemTable : StemTable[i][1] = word
  THEN StemTable[CHOOSE i \in DOMAIN StemTable : StemTable[i][1] = word][2]
  ELSE word

Newline == "\n"

\* to_tsvector / plainto_tsquery: the lexemes of the words that are no stop
\* words
Lexemes(text) ==
  {Stem(text[i]) :
     i \in {j \in DOMAIN text : text[j] # Newline /\ text[j] \notin StopWords}}

\* to_tsvector(text) @@ plainto_tsquery(q): every lexeme of q is in the text;
\* a query without lexemes matches nothing
TsMatch(text, q) == Lexemes(q) # {} /\ Lexemes(q) \subseteq Lexemes(text)

\* string_to_array(text, E'\n\n'): the pieces between blank lines, found
\* left to right
RECURSIVE SplitFrom(_, _)
SplitFrom(text, piece) ==
  IF text = <<>> THEN <<piece>>
  ELSE IF Len(text) >= 2 /\ text[1] = Newline /\ text[2] = Newline
       THEN <<piece>> \o SplitFrom(SubSeq(text, 3, Len(text)), <<>>)
  ELSE SplitFrom(Tail(text), Append(piece, Head(text)))

StringToArray(text) == IF text = <<>> THEN <<>> ELSE SplitFrom(text, <<>>)

\* LIMIT limit OFFSET offset over the rows of a result, both bigint
LimitOffset(rows, limit, offset) ==
  IF IsNegative(offset) \/ IsNegative(limit)
  THEN [err |-> "QueryError", rows |-> <<>>]
  ELSE LET from == Capped(offset, Len(rows))
           count == Capped(limit, Len(rows))
           to == IF from + count > Len(rows) THEN Len(rows) ELSE from + count
       IN [err |-> "nil", rows |-> SubSeq(rows, from + 1, to)]

\* the orders ORDER BY release_date DESC admits for a set of rows
DateRank(d) == CHOOSE i \in DOMAIN DateTable : DateTable[i][1] = d

\* (mutant) ORDER BY release_date without DESC
OrderByReleaseDateAsc(rows) ==
  {seq \in [1..Cardinality(rows) -> rows] :
     /\ \A i, j \in DOMAIN seq : i # j => seq[i] # seq[j]
     /\ \A i, j \in DOMAIN seq :
          i < j => DateRank(seq[i].release_date) <= DateRank(seq[j].release_date)}

OrderByReleaseDateDesc(rows) ==
  {seq \in [1..Cardinality(rows) -> rows] :
     /\ \A i, j \in DOMAIN seq : i # j => seq[i] # seq[j]
     /\ \A i, j \in DOMAIN seq :
          i < j => DateRank(seq[i].release_date) >= DateRank(seq[j].release_date)}

----------------------------------------------------------------------------
(* The paginated queries of the repository                                 *)

\* "%" + value + "%"
Wild(value) == <<"%">> \o value \o <<"%">>

\* (mutant) a predicate appended without argID++
AppendPredicateSameID(q, op, col, arg) ==
  [where |-> Append(q.where, [op |-> op, col |-> col, arg |-> q.argID]),
   args |-> Append(q.args, arg),
   argID |-> q.argID]

\* query += " AND <col> <op> $argID"; args = append(args, arg); argID++
AppendPredicate(q, op, col, arg) ==
  [where |-> Append(q.where, [op |-> op, col |-> col, arg |-> q.argID]),
   args |-> Append(q.args, arg),
   argID |-> q.argID + 1]

\* (page-1)*pageSize, on int
Offset(page, pageSize) == IntMul(IntAdd(page, GoInt(-1)), pageSize)

\* the query GetSongPaginated builds: the predicates with the number of
\* their placeholder, the arguments, and the placeholders of LIMIT and OFFSET
BuildQuery(filter, page, pageSize) ==
  LET q0 == [where |-> <<>>, args |-> <<>>, argID |-> 1]
      q1 == IF "group" \in DOMAIN filter
            THEN AppendPredicate(q0, "ILIKE", "group_name", Wild(filter["group"]))
            ELSE q0
      q2 == IF "song" \in DOMAIN filter
            THEN AppendPredicate(q1, "ILIKE", "song_name", Wild(filter["song"]))
            ELSE q1
      q3 == IF "text" \in DOMAIN filter
            THEN AppendPredicate(q2, "@@", "text", filter["text"])
            ELSE q2
  IN [where |-> q3.where,
      args |-> q3.args \o <<pageSize, Offset(page, pageSize)>>,
      limit |-> q3.argID,
      offset |-> q3.argID + 1]

\* a row satisfies a predicate under the arguments bound to the placeholders
Satisfies(r, pred, args) ==
  IF pred.op = "ILIKE" THEN ILike(args[pred.arg], r[pred.col])
  ELSE TsMatch(r[pred.col], args[pred.arg])

\* the results the database may return for a query: one for each order of
\* the matching rows that ORDER BY release_date DESC admits
RunQuery(tbl, q) ==
  LET matching == {r \in tbl :
                     \A i \in DOMAIN q.where : Satisfies(r, q.where[i], q.args)}
  IN {LET lo == LimitOffset(seq, q.args[q.limit], q.args[q.offset])
      IN [err |-> lo.err,
          songs |-> [i \in DOMAIN lo.rows |-> ScanSong(lo.rows[i])]] :
        seq \in OrderByReleaseDateDesc(matching)}

\* SongRepository.GetSongPaginated: the results it may return
GetSongPaginated(tbl, filter, page, pageSize, dbOk) ==
  IF ~dbOk THEN {[err |-> "StoreUnavailable", songs |-> <<>>]}
  ELSE RunQuery(tbl, BuildQuery(filter, page, pageSize))

\* SongRepository.GetSongTextPaginated: SELECT unnest(string_to_array(text,
\* E'\n\n')) FROM songs WHERE id = $1 LIMIT $2 OFFSET $3
GetSongTextPaginated(tbl, id, page, pageSize, dbOk) ==
  LET hit == {r \in tbl : r.id = id}
      verses == IF hit = {} THEN <<>>
                ELSE StringToArray((CHOOSE r \in hit : TRUE).text)
      lo == LimitOffset(verses, pageSize, Offset(page, pageSize))
  IN IF ~dbOk THEN [err |-> "StoreUnavailable", verses |-> <<>>]
     ELSE [err |-> lo.err, verses |-> lo.rows]

\* SongService.GetSongPaginated: the repository's result, nil on an error
ServiceGetSongPaginated(tbl, filter, page, pageSize, dbOk) ==
  {IF r.err # "nil" THEN [err |-> r.err, songs |-> <<>>] ELSE r :
     r \in GetSongPaginated(tbl, filter, page, pageSize, dbOk)}

\* (mutant) SongService.GetSongTextPaginated passing pageSize for page and
\* page for pageSize
ServiceGetSongTextPaginatedSwapped(tbl, id, page, pageSize, dbOk) ==
  LET r == GetSongTextPaginated(tbl, id, pageSize, page, dbOk)
  IN IF r.err # "nil" THEN [err |-> r.err, verses |-> <<>>] ELSE r

\* SongService.GetSongTextPaginated: the repository's result, nil on an error
ServiceGetSongTextPaginated(tbl, id, page, pageSize, dbOk) ==
  LET r == GetSongTextPaginated(tbl, id, page, pageSize, dbOk)
  IN IF r.err # "nil" THEN [err |-> r.err, verses |-> <<>>] ELSE r

----------------------------------------------------------------------------
(* The handlers of the paginated queries                                   *)

DefaultSongsPageSize == 10

DefaultLyricsPageSize == 2

\* url.Values.Get: the empty string for a parameter the request lacks
QueryGet(query, key) == IF key \in DOMAIN query THEN query[key] ELSE <<>>

\* the filter the handler builds: the recognised parameters that are not empty
HandlerFilter(query) ==
  [k \in {key \in {"group", "song", "text"} : QueryGet(query, key) # <<>>}
     |-> QueryGet(query, k)]

\* page, _ := strconv.Atoi(query.Get("page")); if page < 1 { page = 1 }
HandlerPage(query) ==
  LET page == Atoi(QueryGet(query, "page")).val
  IN IF LessThanOne(page) THEN GoInt(1) ELSE page

\* pageSize, _ := strconv.Atoi(query.Get("pageSize")); if pageSize < 1 { ... }
HandlerPageSize(query, default) ==
  LET pageSize == Atoi(QueryGet(query, "pageSize")).val
  IN IF LessThanOne(pageSize) THEN GoInt(default) ELSE pageSize

----------------------------------------------------------------------------
(* SpecPage: one paginated request against a catalog                       *)

Muse == <<"M", "u", "s", "e">>
Abba == <<"A", "b", "b", "a">>
Up == <<"U", "p">>
Sun == <<"s", "u", "n">>

\* lyrics: three verses; one verse of two lines; a blank line followed by a
\* newline and a blank line at the end; no text
ThreeVerses == <<"Love", Newline, Newline, "the", "sun", Newline, Newline, "loves">>
OneVerse == <<"suns", Newline, "Love">>
OddVerses == <<"sun", Newline, Newline, Newline, "Love", Newline, Newline>>
NoText == <<>>

PageRows ==
  { Row(IdOfNano[1], Muse, Up, DateTable[1][1], ThreeVerses, "http://l"),
    Row(IdOfNano[2], Muse, Sun, DateTable[2][1], OneVerse, "http://l"),
    Row(IdOfNano[3], Abba, Up, DateTable[2][1], OddVerses, "http://l"),
    Row(IdOfNano[4], Abba, Sun, DateTable[3][1], NoText, "http://l") }

PageTables == SUBSET PageRows

PageIds == {r.id : r \in PageRows}

\* the values a filter key may carry; genre is a key the repository does
\* not know
FilterValues ==
  [group |-> {<<"m", "U">>, <<"_">>},
   song |-> {<<"u", "P">>, <<"%">>},
   text |-> {<<"loves">>, <<"The">>},
   genre |-> {<<"x">>}]

Filters ==
  UNION {{f \in [ks -> UNION {FilterValues[k] : k \in DOMAIN FilterValues}] :
            \A k \in ks : f[k] \in FilterValues[k]} :
         ks \in SUBSET DOMAIN FilterValues}

\* page numbers and page sizes a caller of the service may pass
PageInts == {GoInt(n) : n \in -1..3} \cup {IntAdd(Pow2(32), GoInt(1)), IntAdd(Pow2(62), GoInt(1))}

SizeInts == {GoInt(n) : n \in -1..3} \cup {Pow2(32)}

\* query strings of GET /songs
SongQueries ==
  {[k \in ks |-> CASE k = "group" -> g [] k = "page" -> pg [] k = "pageSize" -> sz
                   [] OTHER -> <<"x">>] :
     ks \in {{"group", "page", "pageSize"}, {"group", "page", "pageSize", "genre"}},
     g \in {<<>>, <<"m", "U">>}, pg \in PageQueries, sz \in SizeQueries}

\* query strings of GET /song/lyrics; the id is kept apart from them
LyricsQueries ==
  {[page |-> pg, pageSize |-> sz] : pg \in PageQueries, sz \in SizeQueries}

\* what a paginated request left behind
PageCall(op, via, id, filter, page, pageSize, dbOk, err, result) ==
  [op |-> op, via |-> via, query |-> <<>>, id |-> id, filter |-> filter, page |-> page,
   pageSize |-> pageSize, db |-> dbOk, err |-> err, result |-> result]

InitPage ==
  /\ songs \in PageTables
  /\ cache \in {[k \in Keys |-> Absent], [k \in Keys |-> Garbage]}
  /\ last = Idle
  /\ workers = [i \in Workers |-> Idle]
  /\ mutated = {}
  /\ ttl = [k \in Keys |-> NoExpiry]

\* a call of SongService.GetSongPaginated
DoGetSongPaginated ==
  /\ last = Idle
  /\ \E filter \in Filters, page \in PageInts, pageSize \in SizeInts, dbOk \in BOOLEAN :
       \E r \in ServiceGetSongPaginated(songs, filter, page, pageSize, dbOk) :
         last' = PageCall("GetSongPaginated", "service", "", filter, page, pageSize,
                          dbOk, r.err, r.songs)
  /\ UNCHANGED <<songs, cache, workers, mutated, ttl>>

\* a call of SongService.GetSongTextPaginated
DoGetSongTextPaginated ==
  /\ last = Idle
  /\ \E id \in PageIds, page \in PageInts, pageSize \in SizeInts, dbOk \in BOOLEAN :
       LET r == ServiceGetSongTextPaginated(songs, id, page, pageSize, dbOk)
       IN last' = PageCall("GetSongTextPaginated", "service", id, <<>>, page,
                           pageSize, dbOk, r.err, r.verses)
  /\ UNCHANGED <<songs, cache, workers, mutated, ttl>>

\* GET /songs: SongHandler.GetSongPaginated
HandleGetSongPaginated ==
  /\ last = Idle
  /\ \E query \in SongQueries, dbOk \in BOOLEAN :
       LET filter == HandlerFilter(query)
           page == HandlerPage(query)
           pageSize == HandlerPageSize(query, DefaultSongsPageSize)
       IN \E r \in ServiceGetSongPaginated(songs, filter, page, pageSize, dbOk) :
            last' = [PageCall("GetSongPaginated", "GET /songs", "", filter, page,
                              pageSize, dbOk, r.err, r.songs)
                       EXCEPT !.query = query]
  /\ UNCHANGED <<songs, cache, workers, mutated, ttl>>

\* GET /song/lyrics: SongHandler.GetSongTextPaginatedHandler; a request
\* without id is answered 400 before the service is called
HandleGetSongTextPaginated ==
  /\ last = Idle
  /\ \E id \in PageIds \cup {""}, query \in LyricsQueries, dbOk \in BOOLEAN :
       LET page == HandlerPage(query)
           pageSize == HandlerPageSize(query, DefaultLyricsPageSize)
           r == ServiceGetSongTextPaginated(songs, id, page, pageSize, dbOk)
       IN last' = IF id = ""
                  THEN [PageCall("GetSongTextPaginated", "GET /song/lyrics", id, <<>>,
                                 GoInt(0), GoInt(0), FALSE, "MissingSongID", <<>>)
                          EXCEPT !.query = query]
                  ELSE [PageCall("GetSongTextPaginated", "GET /song/lyrics", id, <<>>, page,
                                 pageSize, dbOk, r.err, r.verses)
                          EXCEPT !.query = query]
  /\ UNCHANGED <<songs, cache, workers, mutated, ttl>>

\* the response is written; the next request arrives
PageReturn ==
  /\ last # Idle
  /\ last' = Idle
  /\ UNCHANGED <<songs, cache, workers, mutated, ttl>>

NextPage ==
  \/ DoGetSongPaginated
  \/ DoGetSongTextPaginated
  \/ HandleGetSongPaginated
  \/ HandleGetSongTextPaginated
  \/ PageReturn

SpecPage == InitPage /\ [][NextPage]_vars

----------------------------------------------------------------------------
(* SpecTTL: one caller on one id, and a clock; Redis removes a key when    *)
(* the time to live of the key has run out                                 *)

\* the id the timed calls are made on
TimedIds == {IdOfNano[1]}

InitTTL ==
  /\ songs \in {tbl \in Tables : \A r \in tbl : r.id \in TimedIds}
  /\ cache \in {c \in [Keys -> {Absent, Garbage}] :
                  \A id \in Ids \ TimedIds : c[CacheKey(id)] = Absent}
  /\ last = Idle
  /\ workers = [i \in Workers |-> Idle]
  /\ mutated = {}
  /\ ttl = [k \in Keys |-> NoExpiry]

\* the outcomes of the round trips of a call, one flag per collaborator call
Oks == [get : BOOLEAN, del : BOOLEAN, set : BOOLEAN, db : BOOLEAN, api : BOOLEAN]

\* the times to live the returned call w leaves: those of its redis.Del
\* (UpdateSong, DeleteSong) and then of its redis.Set (GetSong, UpdateSong)
TimesToLive(t, w) ==
  LET key == CacheKey(w.id)
      t1 == IF w.del # "-" THEN RedisDelTTL(t, key, w.del = "ok") ELSE t
  IN IF w.set # "-" THEN RedisSetTTL(t1, key, CacheMinutes, w.set = "ok") ELSE t1

\* the call w from its first round trip to its return
TimedCall(w, now) ==
  \E oks \in Oks :
    LET r == Outcome(w, songs, cache, oks, now)
    IN /\ songs' = r.tbl
       /\ cache' = r.c
       /\ last' = r.w
       /\ ttl' = TimesToLive(ttl, r.w)
       /\ UNCHANGED <<workers, mutated>>

TimedGetSong == \E id \in TimedIds : TimedCall(GetSong(id), 3)

TimedUpdateSong ==
  \E id \in TimedIds, in \in ValidInputs, now \in Nanos :
    TimedCall(UpdateSong(id, in), now)

TimedDeleteSong == \E id \in TimedIds : TimedCall(DeleteSong(id), 3)

\* a minute passes: every time to live is a minute shorter, and a key whose
\* last minute it was is removed
Tick ==
  /\ \E k \in Keys : ttl[k] # NoExpiry
  /\ ttl' = [k \in Keys |->
               IF ttl[k] = NoExpiry \/ ttl[k][1] = 1 THEN NoExpiry
               ELSE <<ttl[k][1] - 1>>]
  /\ cache' = [k \in Keys |->
                 IF ttl[k] # NoExpiry /\ ttl[k][1] = 1 THEN Absent ELSE cache[k]]
  /\ UNCHANGED <<songs, last, workers, mutated>>

NextTTL == TimedGetSong \/ TimedUpdateSong \/ TimedDeleteSong \/ Tick

SpecTTL == InitTTL /\ [][NextTTL]_vars

----------------------------------------------------------------------------
(* Vocabulary of the properties                                            *)

\* the call a completed call record came from
Start(r) ==
  Call(r.op, r.id, r.arg,
       CASE r.op = "GetSong" -> "get"
         [] r.op = "UpdateSong" -> "del"
         [] r.op = "DeleteSong" -> "db"
         [] r.op = "AddSong" -> "api"
         [] OTHER -> "done")

\* this step of Spec is a service call: the one last' records
CallStep == last'.op # "idle" /\ \E now \in Nanos : Complete(Start(last'), now)

\* this step of Spec is a call of op on id
CallOf(op, id) == last'.op = op /\ last'.id = id /\ CallStep

\* the table has a row for id
HasRow(tbl, id) == \E r \in tbl : r.id = id

\* the Song the store holds for id
Record(tbl, id) == ScanSong(CHOOSE r \in tbl : r.id = id)

\* two Songs with the same group, song, text, link and calendar date
SameContent(a, b) ==
  /\ a.GroupName = b.GroupName
  /\ a.SongName = b.SongName
  /\ a.Text = b.Text
  /\ a.Link = b.Link
  /\ ParseDate(a.ReleaseDate) = ParseDate(b.ReleaseDate)

\* ids generateID can return
FreshIds == {generateID(n) : n \in Nanos}

----------------------------------------------------------------------------
(* C1: UpdateSong then GetSong                                             *)

\* C1 as stated: after UpdateSong(id, newValue) returned success, the next
\* GetSong(id) (the store answering) returns newValue, whatever the cache
\* calls of that UpdateSong did.
C1_AsStated ==
  [][\A id \in Ids :
       (/\ last.op = "UpdateSong" /\ last.id = id /\ last.err = "nil"
        /\ CallOf("GetSong", id) /\ last'.db # "fail")
       => (last'.err = "nil" /\ SameContent(last'.song, last.arg))]_vars

\* C1 amended: after UpdateSong(id, newValue) returned success with at least
\* one of its two cache writes (the invalidation, the repopulation) done, the
\* next GetSong(id) returns the group, song, date, text and link of newValue.
C1_FreshAfterUpdate ==
  [][\A id \in Ids :
       (/\ last.op = "UpdateSong" /\ last.id = id /\ last.err = "nil"
        /\ (last.del = "ok" \/ last.set = "ok")
        /\ CallOf("GetSong", id) /\ last'.db # "fail")
       => (last'.err = "nil" /\ SameContent(last'.song, last.arg))]_vars

\* C1 witness: a GetSong served from the entry an UpdateSong wrote (the entry
\* carries the ID NewSong generated), with the content the store now holds.
C1_Witness ==
  /\ last.op = "GetSong" /\ last.get = "hit" /\ last.err = "nil"
  /\ last.song.ID \in FreshIds
  /\ HasRow(songs, last.id)
  /\ SameContent(last.song, Record(songs, last.id))

----------------------------------------------------------------------------
(* C2: DeleteSong then GetSong                                             *)

\* C2 as stated: after DeleteSong(id) returned success, the next GetSong(id)
\* (the store answering) returns NotFound and the cache has no entry for id.
C2_AsStated ==
  [][\A id \in Ids :
       (/\ last.op = "DeleteSong" /\ last.id = id /\ last.err = "nil"
        /\ CallOf("GetSong", id) /\ last'.db # "fail")
       => (last'.err = "NotFound" /\ cache'[CacheKey(id)] = Absent)]_vars

\* C2 amended: the same, for a DeleteSong whose cache invalidation succeeded.
C2_GoneAfterDelete ==
  [][\A id \in Ids :
       (/\ last.op = "DeleteSong" /\ last.id = id /\ last.err = "nil"
        /\ last.del = "ok"
        /\ CallOf("GetSong", id) /\ last'.db # "fail")
       => (last'.err = "NotFound" /\ cache'[CacheKey(id)] = Absent)]_vars

\* C2 witness: a DeleteSong that removed the row and invalidated the key has
\* returned, and the GetSong that follows answers NotFound.
C2_Witness ==
  /\ last.op = "DeleteSong" /\ last.err = "nil" /\ last.del = "ok"
  /\ ~HasRow(songs, last.id)
  /\ cache[CacheKey(last.id)] = Absent
  /\ Outcome(GetSong(last.id), songs, cache, AllOk, 3).w.err = "NotFound"

----------------------------------------------------------------------------
(* C3: two consecutive GetSong calls                                       *)

\* C3 as stated: of two consecutive GetSong(id) calls with no mutation
\* between them (the store answering), the second returns the Song the first
\* returned (compared by group, song, date, text and link); and when the
\* first left an entry that is still there and Redis answers, the second is a
\* cache hit that makes no store access.
C3_AsStated ==
  [][\A id \in Ids :
       (/\ last.op = "GetSong" /\ last.id = id /\ last.err = "nil"
        /\ CallOf("GetSong", id) /\ last'.db # "fail")
       => /\ last'.err = "nil" /\ SameContent(last'.song, last.song)
          /\ (/\ cache[CacheKey(id)] # Absent
              /\ CanUnmarshal(cache[CacheKey(id)])
              /\ last'.get # "fail")
             => (last'.get = "hit" /\ last'.db = "-")]_vars

\* C3 amended: of two consecutive GetSong(id) calls with no mutation between
\* them, when the cache is available to both (the first hit or wrote the
\* entry, the entry has not expired, Redis answers the second), the second
\* returns the Song the first returned, from the cache, with no store access.
C3_SecondFromCache ==
  [][\A id \in Ids :
       (/\ last.op = "GetSong" /\ last.id = id /\ last.err = "nil"
        /\ (last.get = "hit" \/ last.set = "ok")
        /\ cache[CacheKey(id)] # Absent
        /\ CallOf("GetSong", id) /\ last'.get # "fail")
       => /\ last'.err = "nil" /\ last'.song = last.song
          /\ last'.get = "hit" /\ last'.db = "-"]_vars

\* C3 witness: a GetSong that missed, read the store and wrote the entry has
\* returned, and the GetSong that follows hits that entry.
C3_Witness ==
  /\ last.op = "GetSong" /\ last.err = "nil"
  /\ last.get = "miss" /\ last.db = "ok" /\ last.set = "ok"
  /\ cache[CacheKey(last.id)] = Marshal(last.song)
  /\ Outcome(GetSong(last.id), songs, cache, AllOk, 3).w.get = "hit"

----------------------------------------------------------------------------
(* C4: UpdateSong and DeleteSong on an id without a row                    *)

\* the cache changed, if at all, by losing the entry of id
OnlyInvalidated(id) ==
  \A k \in Keys :
    cache'[k] = cache[k] \/ (k = CacheKey(id) /\ cache'[k] = Absent)

\* C4 as stated: UpdateSong(id, song) and DeleteSong(id) on an id without a
\* row (the store answering) return NotFound, leave the table as it was and
\* change the cache at most by removing the entry of id.
C4_AsStated ==
  [][\A id \in Ids :
       (/\ ~HasRow(songs, id)
        /\ last'.op \in {"UpdateSong", "DeleteSong"} /\ last'.id = id
        /\ last'.db # "fail"
        /\ CallStep)
       => /\ last'.err = "NotFound"
          /\ songs' = songs
          /\ OnlyInvalidated(id)]_vars

\* the request body passes NewSong and the store's date input
WellFormed(in) ==
  in.GroupName # "" /\ in.SongName # "" /\ ParseDate(in.ReleaseDate) # BadDate

\* C4 amended: on an id without a row, DeleteSong(id) and UpdateSong(id, song)
\* with non-empty names and a well-formed date return NotFound; UpdateSong
\* with an empty name returns InvalidInput (no store call is made) and with a
\* malformed date the store's input error; in every case the table is as it
\* was and the cache changed at most by losing the entry of id.
C4_MissingRow ==
  [][\A id \in Ids :
       (/\ ~HasRow(songs, id)
        /\ last'.op \in {"UpdateSong", "DeleteSong"} /\ last'.id = id
        /\ last'.db # "fail"
        /\ CallStep)
       => /\ last'.err =
               IF last'.op = "DeleteSong" \/ WellFormed(last'.arg) THEN "NotFound"
               ELSE IF last'.arg.GroupName = "" \/ last'.arg.SongName = ""
                    THEN "InvalidInput" ELSE "InvalidDate"
          /\ songs' = songs
          /\ OnlyInvalidated(id)]_vars

\* C4 witness: an UpdateSong with a well-formed body on an id without a row
\* returned NotFound after its invalidation removed nothing but was done.
C4_Witness ==
  /\ last.op = "UpdateSong" /\ last.err = "NotFound"
  /\ last.del = "ok" /\ last.db = "ok" /\ last.set = "-"
  /\ WellFormed(last.arg)
  /\ ~HasRow(songs, last.id)
  /\ songs # {}

----------------------------------------------------------------------------
(* C5: cache failures are never returned                                   *)

\* the outcomes of the collaborators in the call r records, with every
\* cache write and delete made to succeed
CacheWritesOk(r) ==
  [get |-> r.get # "fail", del |-> TRUE, set |-> TRUE,
   db |-> r.db # "fail", api |-> r.err # "EnrichmentUnavailable"]

\* C5: no call returns a cache error; a GetSong whose cache read failed,
\* missed or gave an undecodable value returns what GetSongRepository
\* returns; and every call returns the error and song, and leaves the table,
\* that it would with all its cache writes and deletes succeeding.
C5_CacheFailureSwallowed ==
  [][(last'.op # "idle" /\ CallStep) =>
       LET ref == Outcome(Start(last'), songs, cache, CacheWritesOk(last'),
                          CHOOSE n \in Nanos : generateID(n) = last'.full.ID
                                               \/ last'.full = NilSong)
           rd == GetSongRepository(songs, last'.id, last'.db # "fail")
       IN /\ last'.err \notin {"CacheUnavailable", "redis.Nil"}
          /\ (last'.op = "GetSong" /\ last'.get \in {"fail", "miss", "garbage"})
             => (last'.err = rd.err /\ last'.song = rd.song)
          /\ last'.err = ref.w.err
          /\ last'.song = ref.w.song
          /\ songs' = ref.tbl]_vars

\* C5 witness: an UpdateSong returned success although both its redis.Del and
\* its redis.Set failed.
C5_Witness ==
  /\ last.op = "UpdateSong" /\ last.err = "nil"
  /\ last.del = "fail" /\ last.set = "fail"
  /\ HasRow(songs, last.id) /\ SameContent(Record(songs, last.id), last.arg)

----------------------------------------------------------------------------
(* C6: negative results are not cached                                     *)

\* C6: a GetSong(id) that did not hit the cache and whose repository read
\* returns an error (no row, or the store failing) returns that error and
\* leaves every key of the cache as it was.
C6_NoNegativeCaching ==
  [][\A id \in Ids :
       (/\ CallOf("GetSong", id)
        /\ last'.get # "hit"
        /\ GetSongRepository(songs, id, last'.db # "fail").err # "nil")
       => /\ last'.err = GetSongRepository(songs, id, last'.db # "fail").err
          /\ last'.song = NilSong
          /\ cache' = cache]_vars

\* C6 witness: a GetSong that missed the cache returned NotFound, and the key
\* is still absent.
C6_Witness ==
  /\ last.op = "GetSong" /\ last.get = "miss" /\ last.db = "ok"
  /\ last.err = "NotFound"
  /\ ~HasRow(songs, last.id)
  /\ cache[CacheKey(last.id)] = Absent

----------------------------------------------------------------------------
(* C7: concurrent GetSong calls (SpecConc)                                 *)

\* an UpdateSong or DeleteSong on id is between its first round trip and its
\* return
MutationInFlight(id) ==
  \E j \in Workers :
    /\ workers[j].op \in {"UpdateSong", "DeleteSong"}
    /\ workers[j].id = id
    /\ workers[j].pc # "done"

----------------------------------------------------------------------------
(* C8: UpdateSong racing DeleteSong (SpecConc)                             *)

\* C8: when the UPDATE of an UpdateSong(id, ...) is executed by the store
\* after the DELETE of a DeleteSong(id) removed the row, the UpdateSong
\* returns NotFound, the table stays without the row, and the call does not
\* go on to repopulate the cache.
C8_UpdateAfterDelete ==
  [][\A i, j \in Workers :
       (/\ workers[i].op = "UpdateSong" /\ workers[i].pc = "db"
        /\ workers'[i] # workers[i]
        /\ workers'[i].db = "ok"
        /\ workers[j].op = "DeleteSong" /\ workers[j].id = workers[i].id
        /\ workers[j].db = "ok" /\ workers[j].err = "nil"
        /\ workers[j].pc \in {"del", "done"})
       => /\ workers'[i].pc = "done"
          /\ workers'[i].err = "NotFound"
          /\ songs' = songs
          /\ ~HasRow(songs', workers[i].id)]_vars

\* C8 witness: an UpdateSong returned NotFound while the DeleteSong that
\* removed the row is still in flight, between its DELETE and its redis.Del.
C8_Witness ==
  \E i, j \in Workers :
    /\ workers[i].op = "UpdateSong" /\ workers[i].pc = "done"
    /\ workers[i].db = "ok" /\ workers[i].err = "NotFound"
    /\ workers[j].op = "DeleteSong" /\ workers[j].id = workers[i].id
    /\ workers[j].pc = "del" /\ workers[j].db = "ok"

----------------------------------------------------------------------------
(* C9: (group name, song name) is unique                                   *)

\* a row other than the one of id holds the pair of names of song
PairTaken(tbl, id, song) ==
  \E r \in tbl :
    r.id # id /\ r.group_name = song.GroupName /\ r.song_name = song.SongName

\* C9 as stated: no two rows share (group name, song name); an AddSong whose
\* INSERT, and an UpdateSong whose UPDATE, would create a second row with a
\* pair already stored fails with Conflict and leaves the table as it was.
C9_AsStated ==
  [][/\ UniqueSongOK(songs) /\ UniqueSongOK(songs')
     /\ (/\ last'.op \in {"AddSong", "UpdateSong"}
         /\ last'.db = "ok"
         /\ ParseDate(last'.full.ReleaseDate) # BadDate
         /\ last'.op = "UpdateSong" => HasRow(songs, last'.id)
         /\ PairTaken(songs, last'.id, last'.full)
         /\ CallStep)
        => (last'.err = "Conflict" /\ songs' = songs)]_vars

----------------------------------------------------------------------------
(* C10: Insert then FindByID                                               *)

\* C10 as stated: an AddSong with non-empty names, a well-formed date and a
\* pair of names not yet stored, whose enrichment and store calls are
\* answered, succeeds, and GetSongRepository of the ID NewSong assigned then
\* returns a Song with the inserted group, song, date, text and link.
C10_AsStated ==
  [][(/\ last'.op = "AddSong"
      /\ last'.db = "ok"
      /\ WellFormed(last'.arg)
      /\ ~PairTaken(songs, last'.id, last'.full)
      /\ CallStep)
     => /\ last'.err = "nil"
        /\ GetSongRepository(songs', last'.full.ID, TRUE).err = "nil"
        /\ SameContent(GetSongRepository(songs', last'.full.ID, TRUE).song,
                       last'.full)]_vars

----------------------------------------------------------------------------
(* Vocabulary of the properties of the paginated queries                   *)

\* the keys of a filter the repository turns into predicates
ActiveKeys(filter) == DOMAIN filter \cap {"group", "song", "text"}

\* the release dates of a sequence of Songs never increase
SortedByDateDesc(result) ==
  \A i, j \in DOMAIN result :
    i < j => DateRank(ParseDate(result[i].ReleaseDate))
               >= DateRank(ParseDate(result[j].ReleaseDate))

\* n <= size, for a number n and an int size
AtMost(n, size) == ~IsNegative(size) /\ n <= Capped(size, n)

\* the state after a call of op that reached the store and was answered
Answered(op) == last.op = op /\ last.db

----------------------------------------------------------------------------
(* C11: the first page of the unfiltered catalog                           *)

\* C11: GetSongPaginated with no active filter key, page 1 and page size N,
\* answered by the store, returns for N >= 0 a sequence of at most N songs,
\* each the record of a stored row, none twice, their release dates never
\* increasing; for N < 0 it returns the store's error and no songs.
C11_FirstPage ==
  (Answered("GetSongPaginated") /\ ActiveKeys(last.filter) = {} /\ last.page = GoInt(1))
  => IF IsNegative(last.pageSize)
     THEN last.err # "nil" /\ last.result = <<>>
     ELSE /\ last.err = "nil"
          /\ AtMost(Len(last.result), last.pageSize)
          /\ SortedByDateDesc(last.result)
          /\ \A i \in DOMAIN last.result : \E r \in songs : last.result[i] = ScanSong(r)
          /\ \A i, j \in DOMAIN last.result : i # j => last.result[i] # last.result[j]

\* C11 witness: page 1 with page size 2 of a catalog of four songs returned
\* two songs, the first released after the second.
C11_Witness ==
  /\ Answered("GetSongPaginated") /\ ActiveKeys(last.filter) = {}
  /\ last.page = GoInt(1) /\ last.pageSize = GoInt(2)
  /\ Cardinality(songs) = 4
  /\ Len(last.result) = 2
  /\ DateRank(ParseDate(last.result[1].ReleaseDate))
       > DateRank(ParseDate(last.result[2].ReleaseDate))

----------------------------------------------------------------------------
(* C12: every returned song satisfies every active filter                  *)

\* str contains part, letter case ignored
Contains(str, part) ==
  \E i \in 0..(Len(str) - Len(part)) :
    SubSeq(Fold(str), i + 1, i + Len(part)) = Fold(part)

\* a filter without the keys the repository does not know
Restrict(filter) == [k \in ActiveKeys(filter) |-> filter[k]]

\* C12 as stated: every song GetSongPaginated returns has a group name that
\* contains the group filter and a song name that contains the song filter,
\* letter case ignored, and a text that matches the text filter, for the keys
\* the filter carries; and the result is one the same call returns without
\* the keys the repository does not know.
C12_AsStated ==
  (Answered("GetSongPaginated") /\ last.err = "nil")
  => /\ \A i \in DOMAIN last.result :
          /\ "group" \in DOMAIN last.filter
             => Contains(last.result[i].GroupName, last.filter["group"])
          /\ "song" \in DOMAIN last.filter
             => Contains(last.result[i].SongName, last.filter["song"])
          /\ "text" \in DOMAIN last.filter
             => TsMatch(last.result[i].Text, last.filter["text"])
     /\ \E r \in GetSongPaginated(songs, Restrict(last.filter), last.page,
                                  last.pageSize, TRUE) :
          r.err = "nil" /\ r.songs = last.result

----------------------------------------------------------------------------
(* C13: the window of verses                                               *)

\* a * b of two non-negative ints as a number of 2 * IntBytes bytes: the
\* product without wrapping
RECURSIVE WideColumn(_, _, _, _)
WideColumn(a, b, k, i) ==
  IF i > k THEN 0
  ELSE (IF i <= IntBytes /\ k + 1 - i <= IntBytes THEN a[i] * b[k + 1 - i] ELSE 0)
       + WideColumn(a, b, k, i + 1)

RECURSIVE WideFrom(_, _, _, _)
WideFrom(a, b, k, carry) ==
  IF k > 2 * IntBytes THEN <<>>
  ELSE LET s == WideColumn(a, b, k, 1) + carry
       IN <<s % 256>> \o WideFrom(a, b, k + 1, s \div 256)

ExactProduct(a, b) == WideFrom(a, b, 1, 0)

\* the elements of seq numbered from zero in [offset, offset + pageSize),
\* offset = (page - 1) * pageSize, for page >= 1 and pageSize >= 1
Window(seq, page, pageSize) ==
  LET from == Capped(ExactProduct(IntAdd(page, GoInt(-1)), pageSize), Len(seq))
      count == Capped(pageSize, Len(seq))
      to == IF from + count > Len(seq) THEN Len(seq) ELSE from + count
  IN SubSeq(seq, from + 1, to)

\* the verses of the text of the song id: the pieces between blank lines
Verses(tbl, id) == StringToArray((CHOOSE r \in tbl : r.id = id).text)

\* page and pageSize are a page number and a page size: both at least 1
IsPage(page, pageSize) == ~LessThanOne(page) /\ ~LessThanOne(pageSize)

\* C13 as stated: GetSongTextPaginated(id, page, pageSize) of a stored song,
\* for page >= 1 and pageSize >= 1, returns no error and exactly the verses
\* numbered offset .. offset + pageSize - 1, offset = (page - 1) * pageSize,
\* in order: an empty sequence when the text has no verse there.
C13_AsStated ==
  (/\ Answered("GetSongTextPaginated") /\ last.id # ""
   /\ HasRow(songs, last.id)
   /\ IsPage(last.page, last.pageSize))
  => /\ last.err = "nil"
     /\ last.result = Window(Verses(songs, last.id), last.page, last.pageSize)

----------------------------------------------------------------------------
(* C14: the verses of an id without a row                                  *)

\* C14 as stated: GetSongTextPaginated(id, page, pageSize), page >= 1 and
\* pageSize >= 1, for an id without a row, answered by the store, returns an
\* empty sequence and no error, while GetSong(id), having missed the cache,
\* returns NotFound.
C14_AsStated ==
  (/\ Answered("GetSongTextPaginated") /\ last.id # ""
   /\ ~HasRow(songs, last.id)
   /\ IsPage(last.page, last.pageSize))
  => /\ last.err = "nil"
     /\ last.result = <<>>
     /\ GetSongStore([GetSong(last.id) EXCEPT !.pc = "db"], songs, cache, TRUE).w.err
          = "NotFound"

----------------------------------------------------------------------------
(* C15: the page parameters the store is queried with                      *)

\* the page the claim gives a request: 1 for a page parameter that is
\* absent, does not parse or is not positive
ClaimedPage(query) ==
  LET parsed == Atoi(QueryGet(query, "page"))
  IN IF parsed.err # "nil" \/ LessThanOne(parsed.val) THEN GoInt(1) ELSE parsed.val

\* the page size the claim gives a request
ClaimedPageSize(query, default) ==
  LET parsed == Atoi(QueryGet(query, "pageSize"))
  IN IF parsed.err # "nil" \/ LessThanOne(parsed.val) THEN GoInt(default)
     ELSE parsed.val

\* the LIMIT and the OFFSET bound to the query of the call last records
QueriedLimit ==
  IF last.op = "GetSongPaginated"
  THEN LET q == BuildQuery(last.filter, last.page, last.pageSize) IN q.args[q.limit]
  ELSE last.pageSize

QueriedOffset ==
  IF last.op = "GetSongPaginated"
  THEN LET q == BuildQuery(last.filter, last.page, last.pageSize) IN q.args[q.offset]
  ELSE Offset(last.page, last.pageSize)

\* an int as a number of 2 * IntBytes bytes
Widen(a) == a \o [i \in 1..IntBytes |-> IF IsNegative(a) THEN 255 ELSE 0]

\* C15 as stated: a request of GET /songs or GET /song/lyrics that reaches
\* the service does so with page 1 when its page parameter is absent, does
\* not parse or is not positive, with page size 10 (songs) or 2 (lyrics) when
\* its pageSize parameter is absent or not positive, with the numbers written
\* otherwise; and the store is queried with LIMIT pageSize and OFFSET
\* (page-1)*pageSize.
C15_AsStated ==
  (last.op \in {"GetSongPaginated", "GetSongTextPaginated"}
   /\ last.via \in {"GET /songs", "GET /song/lyrics"}
   /\ last.db)
  => /\ last.page = ClaimedPage(last.query)
     /\ last.pageSize
          = ClaimedPageSize(last.query,
                            IF last.via = "GET /songs" THEN DefaultSongsPageSize
                            ELSE DefaultLyricsPageSize)
     /\ QueriedLimit = last.pageSize
     /\ Widen(QueriedOffset) = ExactProduct(IntAdd(last.page, GoInt(-1)), last.pageSize)

----------------------------------------------------------------------------
(* C16: stored names are not empty                                         *)

\* every row has a group name and a song name
NamesNotEmpty(tbl) == \A r \in tbl : r.group_name # "" /\ r.song_name # ""

\* C16: every stored song has a non-empty group name and a non-empty song
\* name before and after every step, and an AddSong or UpdateSong whose group
\* name or song name is empty returns an error without calling the
\* repository, the table staying as it was.
C16_NamesNotEmpty ==
  [][/\ NamesNotEmpty(songs) /\ NamesNotEmpty(songs')
     /\ (/\ last'.op \in {"AddSong", "UpdateSong"}
         /\ (last'.arg.GroupName = "" \/ last'.arg.SongName = "")
         /\ CallStep)
        => (last'.err # "nil" /\ last'.db = "-" /\ songs' = songs)]_vars

\* C16 witness: an UpdateSong with an empty group name on a stored song was
\* rejected, the enrichment and cache calls of the step all answered.
C16_Witness ==
  /\ last.op = "UpdateSong" /\ last.arg.GroupName = ""
  /\ last.err = "InvalidInput" /\ last.del = "ok" /\ last.db = "-"
  /\ HasRow(songs, last.id)
  /\ NamesNotEmpty(songs)

----------------------------------------------------------------------------
(* C17: a failed enrichment aborts AddSong                                 *)

\* C17: an AddSong whose enrichment request fails, is answered with a status
\* that is not 200, or with a body that cannot be read or decoded, returns
\* an error; the repository is not called and the table stays as it was.
C17_EnrichmentAborts ==
  [][(/\ last'.op = "AddSong"
      /\ last'.api \in {"RequestError", "StatusNotOK", "BodyUnreadable", "BodyNotJSON"}
      /\ CallStep)
     => (last'.err # "nil" /\ last'.db = "-" /\ songs' = songs)]_vars

\* C17 witness: an AddSong of a pair not yet stored, with non-empty names,
\* was answered 500 by the enrichment API and returned an error.
C17_Witness ==
  /\ last.op = "AddSong" /\ last.api = "StatusNotOK"
  /\ last.arg.GroupName # "" /\ last.arg.SongName # ""
  /\ last.err = "EnrichmentUnavailable" /\ last.db = "-"
  /\ ~\E r \in songs :
        r.group_name = last.arg.GroupName /\ r.song_name = last.arg.SongName

----------------------------------------------------------------------------
(* C18: a write that returns an error wrote nothing                        *)

----------------------------------------------------------------------------
(* C19: the paginated calls pass through to the store                      *)

\* C19: a call of GetSongPaginated or GetSongTextPaginated leaves the cache
\* and the table as they were and returns what the repository returns for
\* the same filter (or id), page and page size on that table: its error,
\* and its songs (or verses) when there is no error.
C19_PassThrough ==
  [][(last = Idle /\ last'.op \in {"GetSongPaginated", "GetSongTextPaginated"}
      /\ last'.err # "MissingSongID")
     => /\ cache' = cache
        /\ songs' = songs
        /\ IF last'.op = "GetSongPaginated"
           THEN \E r \in GetSongPaginated(songs, last'.filter, last'.page,
                                          last'.pageSize, last'.db) :
                  /\ r.err = last'.err
                  /\ last'.result = IF r.err = "nil" THEN r.songs ELSE <<>>
           ELSE LET r == GetSongTextPaginated(songs, last'.id, last'.page,
                                              last'.pageSize, last'.db)
                IN /\ r.err = last'.err
                   /\ last'.result = IF r.err = "nil" THEN r.verses ELSE <<>>]_vars

\* C19 witness: page 2 with page size 1 of the verses of a song with three
\* verses returned the second verse, the cache holding entries throughout.
C19_Witness ==
  /\ last.op = "GetSongTextPaginated" /\ last.via = "service"
  /\ last.page = GoInt(2) /\ last.pageSize = GoInt(1)
  /\ last.err = "nil"
  /\ HasRow(songs, last.id)
  /\ Len(Verses(songs, last.id)) = 3
  /\ last.result = <<Verses(songs, last.id)[2]>>
  /\ \A k \in Keys : cache[k] = Garbage

----------------------------------------------------------------------------
(* C20: the order of invalidation, store mutation and repopulation         *)
(* (SpecConc)                                                              *)

\* this step is worker i's call of the repository
StoreStep(i) ==
  /\ workers'[i] # workers[i]
  /\ workers'[i].db # "-"
  /\ workers[i].pc \in {"db", "done"}

\* this step is worker i's redis.Del
InvalidateStep(i) ==
  /\ workers'[i] # workers[i]
  /\ workers'[i].del # "-"
  /\ workers[i].pc \in {"del", "done"}

\* this step is worker i's redis.Set
FillStep(i) == workers'[i] # workers[i] /\ workers[i].pc = "set"

\* C20 as stated: when an UpdateSong or a DeleteSong calls the repository
\* its redis.Del has been done, and when an UpdateSong does its redis.Set
\* its store update has succeeded.
C20_AsStated ==
  [][\A i \in Workers :
       /\ (StoreStep(i) /\ workers'[i].op \in {"UpdateSong", "DeleteSong"})
          => workers'[i].del # "-"
       /\ (FillStep(i) /\ workers[i].op = "UpdateSong")
          => (workers[i].db = "ok" /\ workers[i].err = "nil")]_vars

\* C20 amended: an UpdateSong does its redis.Del before it calls the
\* repository and its redis.Set only after the store update succeeded; a
\* DeleteSong calls the repository first, its redis.Del not yet done, and
\* does its redis.Del only after the store deletion succeeded: a DeleteSong
\* whose deletion fails returns without touching the cache.
C20_Order ==
  [][\A i \in Workers :
       /\ (StoreStep(i) /\ workers'[i].op = "UpdateSong") => workers[i].del # "-"
       /\ (FillStep(i) /\ workers[i].op = "UpdateSong")
          => (workers[i].db = "ok" /\ workers[i].err = "nil")
       /\ (StoreStep(i) /\ workers'[i].op = "DeleteSong")
          => /\ workers'[i].del = "-"
             /\ cache' = cache
             /\ workers'[i].pc = "done" <=> workers'[i].err # "nil"
       /\ (InvalidateStep(i) /\ workers'[i].op = "DeleteSong")
          => /\ workers[i].op = "DeleteSong"
             /\ workers[i].db = "ok" /\ workers[i].err = "nil"
             /\ ~HasRow(songs, workers[i].id)]_vars

\* C20 witness: a DeleteSong has deleted the row and not yet done its
\* redis.Del; the cache still holds the song.
C20_Witness ==
  \E i \in Workers :
    /\ workers[i].op = "DeleteSong" /\ workers[i].pc = "del"
    /\ workers[i].db = "ok" /\ workers[i].del = "-"
    /\ ~HasRow(songs, workers[i].id)
    /\ CanUnmarshal(cache[CacheKey(workers[i].id)])

----------------------------------------------------------------------------
(* C21: staleness is bounded by the time to live (SpecTTL)                 *)

\* this step of SpecTTL is a service call: the one last' records
TimedStep == last'.op # "idle" /\ \E now \in Nanos : TimedCall(Start(last'), now)

\* the key has n minutes left, for some n from 1 to CacheMinutes
Expiring(t, k) == t[k] # NoExpiry /\ t[k][1] \in 1..CacheMinutes

\* C21: every redis.Set of GetSong and UpdateSong leaves a 10 minute time to
\* live on the key, every entry that decodes as a Song has one running, and
\* only a redis.Set extends it; so a GetSong(id) that returns a song other
\* than the store's record of id (the invalidation of an UpdateSong or
\* DeleteSong failed) was served from an entry whose time is still running,
\* and a GetSong(id) after the key expired returns the store's record.
C21_StalenessBounded ==
  [][/\ \A k \in Keys : CanUnmarshal(cache'[k]) => Expiring(ttl', k)
     /\ \A k \in Keys :
          (ttl'[k] # NoExpiry /\ (ttl[k] = NoExpiry \/ ttl'[k][1] > ttl[k][1]))
          => (TimedStep /\ last'.set = "ok" /\ k = CacheKey(last'.id)
              /\ ttl'[k] = <<CacheMinutes>>)
     /\ \A id \in TimedIds :
          (TimedStep /\ last'.op = "GetSong" /\ last'.id = id /\ last'.err = "nil")
          => /\ ~(HasRow(songs, id) /\ last'.song = Record(songs, id))
                => (/\ last'.get = "hit"
                    /\ last'.song = Unmarshal(cache[CacheKey(id)])
                    /\ Expiring(ttl, CacheKey(id)))
             /\ cache[CacheKey(id)] = Absent
                => (HasRow(songs, id) /\ last'.song = Record(songs, id))]_vars

\* C21 witness: an UpdateSong or DeleteSong left the entry of a GetSong
\* behind, nine minutes passed, and GetSong returned the entry, which the
\* store does not hold, in the entry's last minute.
C21_Witness ==
  \E id \in TimedIds :
    /\ last.op = "GetSong" /\ last.id = id /\ last.err = "nil" /\ last.get = "hit"
    /\ cache[CacheKey(id)] = Marshal(last.song)
    /\ ttl[CacheKey(id)] = <<1>>
    /\ last.song.ID = id
    /\ ~(HasRow(songs, id) /\ SameContent(last.song, Record(songs, id)))

----------------------------------------------------------------------------
(* C22: the states of a cache key (SpecConc)                               *)

\* the key holds an entry that decodes as a Song with all its fields
Populated(c, k) == CanUnmarshal(c[k])

\* this step is an expiry: no worker moved
ExpireStep == workers' = workers /\ cache' # cache

\* this step is worker i's redis.Set in a GetSong that did not hit the cache
\* and read the song from the store
GetSongFillStep(i, k) ==
  /\ FillStep(i)
  /\ workers[i].op = "GetSong" /\ k = CacheKey(workers[i].id)
  /\ workers[i].get \in {"miss", "garbage", "fail"}
  /\ workers[i].db = "ok"

\* this step is worker i's redis.Set in an UpdateSong whose store update
\* succeeded
UpdateSongFillStep(i, k) ==
  /\ FillStep(i)
  /\ workers[i].op = "UpdateSong" /\ k = CacheKey(workers[i].id)
  /\ workers[i].db = "ok"

\* C22 as stated: a key that held no Song comes to hold one only by the
\* redis.Set of a GetSong that missed and read the store, and an entry
\* leaves the key only by expiry or by a redis.Del; what is written is a
\* complete Song.
C22_AsStated ==
  [][\A k \in Keys :
       /\ (~Populated(cache, k) /\ Populated(cache', k))
          => \E i \in Workers : GetSongFillStep(i, k)
       /\ (cache[k] # Absent /\ cache'[k] = Absent)
          => (ExpireStep
              \/ \E i \in Workers : InvalidateStep(i) /\ k = CacheKey(workers'[i].id))
       /\ cache'[k] # cache[k] => (cache'[k] = Absent \/ Populated(cache', k))]_vars

\* C22 amended: the value under a key changes only in three ways. It is
\* set to a complete Song by the redis.Set of a GetSong that did not hit and
\* read the store (the Song it read) or by the redis.Set of an UpdateSong
\* whose store update succeeded (the fullSong it built); it is removed by
\* the redis.Del of an UpdateSong or DeleteSong; it is removed by expiry.
\* No other round trip of any call changes the cache: between the store
\* read and the redis.Set of a call the key is in no state of its own.
C22_KeyStates ==
  [][\A k \in Keys :
       /\ (cache'[k] # cache[k] /\ cache'[k] # Absent)
          => /\ Populated(cache', k)
             /\ \E i \in Workers :
                  \/ GetSongFillStep(i, k) /\ cache'[k] = Marshal(workers[i].song)
                  \/ UpdateSongFillStep(i, k) /\ cache'[k] = Marshal(workers[i].full)
       /\ (cache'[k] # cache[k] /\ cache'[k] = Absent)
          => (ExpireStep
              \/ \E i \in Workers :
                   /\ InvalidateStep(i) /\ k = CacheKey(workers'[i].id)
                   /\ workers'[i].del = "ok"
                   /\ workers'[i].op \in {"UpdateSong", "DeleteSong"})]_vars

\* C22 witness: an UpdateSong removed the entry, updated the store and set
\* the key to the Song it built.
C22_Witness ==
  \E i \in Workers :
    /\ workers[i].op = "UpdateSong" /\ workers[i].pc = "done"
    /\ workers[i].del = "ok" /\ workers[i].db = "ok" /\ workers[i].set = "ok"
    /\ cache[CacheKey(workers[i].id)] = Marshal(workers[i].full)
    /\ Populated(cache, CacheKey(workers[i].id))

----------------------------------------------------------------------------
(* C23: the placeholders of the filtered query (SpecPage)                  *)

\* the filter keys in the order of their predicates, and their columns
KeyOrder == <<"group", "song", "text">>

ColumnOf == [group |-> "group_name", song |-> "song_name", text |-> "text"]

\* the active keys of a filter, in that order
ActiveSeq(filter) == SelectSeq(KeyOrder, LAMBDA k : k \in DOMAIN filter)

\* the argument the predicate of key k is to receive: the value of the key,
\* between two "%" for the ILIKE predicates
OwnValue(filter, k) == IF k = "text" THEN filter[k] ELSE Wild(filter[k])

\* C23: in the query of every GetSongPaginated call the predicates are those
\* of the active filter keys in the order group, song, text; the i-th
\* predicate has placeholder $i and the i-th argument is the value of its
\* key; LIMIT and OFFSET have the next two placeholders, and the arguments
\* at those positions are pageSize and (page-1)*pageSize, there being no
\* other argument.
C23_Placeholders ==
  last.op = "GetSongPaginated"
  => LET q == BuildQuery(last.filter, last.page, last.pageSize)
         ks == ActiveSeq(last.filter)
         n == Len(ks)
     IN /\ Len(q.where) = n
        /\ \A i \in 1..n :
             /\ q.where[i].col = ColumnOf[ks[i]]
             /\ q.where[i].arg = i
             /\ q.args[i] = OwnValue(last.filter, ks[i])
        /\ q.limit = n + 1
        /\ q.offset = n + 2
        /\ Len(q.args) = n + 2
        /\ q.args[n + 1] = last.pageSize
        /\ q.args[n + 2] = Offset(last.page, last.pageSize)

\* C23 witness: a call filtered by group and text but not by song (and by a
\* key that is no filter key): the text predicate has $2, LIMIT $3 and
\* OFFSET $4, bound to the text, page size 2 and offset 4; the filters of
\* the model have every subset of the three keys.
C23_Witness ==
  /\ last.op = "GetSongPaginated"
  /\ DOMAIN last.filter = {"group", "text", "genre"}
  /\ last.page = GoInt(3) /\ last.pageSize = GoInt(2)
  /\ LET q == BuildQuery(last.filter, last.page, last.pageSize)
     IN /\ q.where[2].col = "text" /\ q.where[2].arg = 2
        /\ q.args = <<Wild(last.filter["group"]), last.filter["text"],
                      GoInt(2), GoInt(4)>>
        /\ q.limit = 3 /\ q.offset = 4
  /\ {ActiveKeys(f) : f \in Filters} = SUBSET {"group", "song", "text"}

----------------------------------------------------------------------------
(* C24: the ID of the songs GetSong returns                                *)

\* C24 as stated: the Song a successful GetSong(id) returned has ID id, and
\* an entry under the key of id that decodes as a Song has ID id.
C24_AsStated ==
  /\ (last.op = "GetSong" /\ last.err = "nil") => last.song.ID = last.id
  /\ \A id \in Ids :
       CanUnmarshal(cache[CacheKey(id)]) => Unmarshal(cache[CacheKey(id)]).ID = id

----------------------------------------------------------------------------
(* C25: the cache after concurrent calls, Redis answering (SpecUp)         *)

\* C25 as stated: when every call has returned, an entry under the key of
\* id that decodes as a Song is the store's record of id (compared by
\* group, song, date, text and link), and there is none when the store has
\* no row for id.
C25_AsStated ==
  (\A i \in Workers : workers[i].pc = "done")
  => \A id \in ConcIds :
       CanUnmarshal(cache[CacheKey(id)])
       => (HasRow(songs, id)
           /\ SameContent(Unmarshal(cache[CacheKey(id)]), Record(songs, id)))

----------------------------------------------------------------------------
(* C26: the offset of the requests of the handlers (SpecPage)              *)

\* C26 as stated: for every request of GET /songs or GET /song/lyrics that
\* reaches the service, the offset passed to the store is not negative and
\* is the product of page-1 and pageSize as numbers.
C26_AsStated ==
  (last.op \in {"GetSongPaginated", "GetSongTextPaginated"}
   /\ last.via \in {"GET /songs", "GET /song/lyrics"}
   /\ last.err # "MissingSongID")
  => /\ ~IsNegative(QueriedOffset)
     /\ Widen(QueriedOffset) = ExactProduct(IntAdd(last.page, GoInt(-1)), last.pageSize)

====
